---- MODULE Spec2Model ----
(***************************************************************************)
(* TrueType instruction compiler of ufo2ft                                 *)
(* (Lib/ufo2ft/instructionCompiler.py, class InstructionCompiler).         *)
(*                                                                         *)
(* The compiler object holds a source font (self.ufo), an output font      *)
(* (self.otf) and the switch self.autoUseMyMetrics.  Every method is one   *)
(* action; the pure part of a method is an operator that maps the objects  *)
(* it reads to the objects it leaves behind, the exception it raises and   *)
(* the log records it emits.                                               *)
(***************************************************************************)
EXTENDS Integers, Sequences, FiniteSets, TLC

VARIABLES
    ufo,               \* self.ufo: [lib, glyphs]
    otf,               \* self.otf: [glyf, hmtx, maxp, tables]
    autoUseMyMetrics,  \* self.autoUseMyMetrics
    before,            \* self.otf as it was when the last call started
    call,              \* the last call: [op, name]
    raised,            \* the exception the last call raised, "None" if none
    log,               \* the log records the last call emitted
    pass               \* the number of runs over the font the caller has started

vars == <<ufo, otf, autoUseMyMetrics, before, call, raised, log, pass>>

(***************************************************************************)
(* Python values.  A value carries its type; a dict is a function from its *)
(* keys to values, a str is a TLA+ string.                                 *)
(***************************************************************************)
PyNone == [type |-> "NoneType"]
PyStr(s) == [type |-> "str", val |-> s]
PyInt(n) == [type |-> "int", val |-> n]
PyBool(b) == [type |-> "bool", val |-> b]
PyDict(f) == [type |-> "dict", val |-> f]

\* bool(v)
Truthy(v) ==
    CASE v.type = "NoneType" -> FALSE
      [] v.type = "str" -> v.val # ""
      [] v.type = "int" -> v.val # 0
      [] v.type = "bool" -> v.val
      [] v.type = "dict" -> DOMAIN v.val # {}

\* k in d
dict_in(d, k) == k \in DOMAIN d.val

\* d.get(k, default)
dict_get(d, k, default) == IF k \in DOMAIN d.val THEN d.val[k] ELSE default

(***************************************************************************)
(* Constants imported by the module.                                       *)
(***************************************************************************)
OVERLAP_COMPOUND == 1024
ROUND_XY_TO_GRID == 4
USE_MY_METRICS == 512

OBJECT_LIBS_KEY == "public.objectLibs"
TRUETYPE_INSTRUCTIONS_KEY == "public.truetype.instructions"
TRUETYPE_METRICS_KEY == "public.truetype.useMyMetrics"
TRUETYPE_OVERLAP_KEY == "public.truetype.overlap"
TRUETYPE_ROUND_KEY == "public.truetype.roundOffsetToGrid"

\* flags & bit
HasFlag(flags, bit) == (flags \div bit) % 2 = 1
\* flags |= bit
SetFlag(flags, bit) == IF HasFlag(flags, bit) THEN flags ELSE flags + bit
\* flags &= ~bit
ClearFlag(flags, bit) == IF HasFlag(flags, bit) THEN flags - bit ELSE flags

(***************************************************************************)
(* Log records.                                                            *)
(***************************************************************************)
LogRecord(level, msg, about) == [level |-> level, msg |-> msg, about |-> about]

(***************************************************************************)
(* fontTools collaborators: the point hash and the TrueType program.       *)
(***************************************************************************)
\* HashPointPen(ttwidth, glyphSet) after ttglyph.drawPoints: the hash string
\* starts with the advance width and continues with the drawn geometry.
HashPointPen(ttwidth, outline) ==
    CASE ttwidth = 388 /\ outline = "a" -> "w388a"
      [] ttwidth = 398 /\ outline = "a" -> "w398a"
      [] ttwidth = 388 /\ outline = "h" -> "w388h"
      [] ttwidth = 398 /\ outline = "h" -> "w398h"

\* str.splitlines() of the assembly texts in use
splitlines(text) ==
    CASE text = "" -> <<>>
      [] text = "\n" -> <<"">>
      [] text = "SVTCA[0]" -> <<"SVTCA[0]">>
      [] text = "PUSHB[]\n0\nMDAP[1]" -> <<"PUSHB[]", "0", "MDAP[1]">>

\* Program(); program.fromAssembly(asm)
ProgramFromAssembly(text) == [form |-> "assembly", data |-> splitlines(text)]
\* Program(); program.fromBytecode(bytes), as a decompiled glyph carries it
ProgramFromBytecode(bytes) == [form |-> "bytecode", data |-> bytes]
\* the glyph has no attribute "program"
NoProgram == [form |-> "none", data |-> <<>>]

\* Program(), before anything is loaded into it
EmptyProgram == [form |-> "empty", data |-> <<>>]

\* program.fromAssembly(asm) raises for a value that is not assembly text
fromAssembly_raises(asm) == asm.type # "str"

\* hasattr(ttglyph, "program")
HasProgram(ttglyph) == ttglyph.program.form # "none"

\* bool(program): it has assembly lines or bytecode
ProgramBool(program) == Len(program.data) > 0

\* the bytes one line of assembly contributes
AssembleLine(line) ==
    CASE line = "" -> <<>>
      [] line = "SVTCA[0]" -> <<0>>
      [] line = "PUSHB[]" -> <<176>>
      [] line = "0" -> <<0>>
      [] line = "MDAP[1]" -> <<47>>

RECURSIVE Assemble(_)
Assemble(lines) ==
    IF lines = <<>> THEN <<>>
    ELSE AssembleLine(Head(lines)) \o Assemble(Tail(lines))

\* program.getBytecode()
getBytecode(program) ==
    IF program.form = "assembly" THEN Assemble(program.data) ELSE program.data

(***************************************************************************)
(* _check_glyph_hash: the result and the log records.                      *)
(***************************************************************************)
\* mutant: only a missing hash fails
check_glyph_hash_missing_only(glyph, ttglyph, glyph_hash, o) ==
    IF glyph_hash.type = "NoneType"
    THEN [result |-> FALSE,
          log |-> <<LogRecord("error", "Glyph hash missing", glyph.name)>>]
    ELSE [result |-> TRUE, log |-> <<>>]

\* mutant: the hash pen also sees the programs of the font's glyphs, a font
\* with any glyph program never matches
check_glyph_hash_hinted(glyph, ttglyph, glyph_hash, o) ==
    LET ttwidth == o.hmtx[glyph.name]
        hash == HashPointPen(ttwidth, ttglyph.outline)
        hinted == \E g \in DOMAIN o.glyf : o.glyf[g].program.form # "none"
    IN  IF glyph_hash.type = "NoneType"
        THEN [result |-> FALSE,
              log |-> <<LogRecord("error", "Glyph hash missing", glyph.name)>>]
        ELSE IF hinted \/ glyph_hash # PyStr(hash)
        THEN [result |-> FALSE,
              log |-> <<LogRecord("error", "Glyph hash mismatch", glyph.name)>>]
        ELSE [result |-> TRUE, log |-> <<>>]

check_glyph_hash(glyph, ttglyph, glyph_hash, o) ==
    LET ttwidth == o.hmtx[glyph.name]
        hash == HashPointPen(ttwidth, ttglyph.outline)
    IN  IF glyph_hash.type = "NoneType"
        THEN [result |-> FALSE,
              log |-> <<LogRecord("error", "Glyph hash missing", glyph.name)>>]
        ELSE IF glyph_hash # PyStr(hash)
        THEN [result |-> FALSE,
              log |-> <<LogRecord("error", "Glyph hash mismatch", glyph.name)>>]
        ELSE [result |-> TRUE, log |-> <<>>]

(***************************************************************************)
(* _check_tt_data_format: the exception it raises, "None" when it returns. *)
(***************************************************************************)
\* mutant: only a missing formatVersion is a TypeError
check_tt_data_format_untyped(ttdata) ==
    LET formatVersion == dict_get(ttdata, "formatVersion", PyNone)
    IN  IF formatVersion.type = "NoneType" THEN "TypeError"
        ELSE IF ~(formatVersion.type = "str" /\ formatVersion.val = "1")
        THEN "NotImplementedError"
        ELSE "None"

\* mutant: a string other than "1" is accepted
check_tt_data_format_lenient(ttdata) ==
    LET formatVersion == dict_get(ttdata, "formatVersion", PyNone)
    IN  IF formatVersion.type # "str" THEN "TypeError" ELSE "None"

check_tt_data_format(ttdata) ==
    LET formatVersion == dict_get(ttdata, "formatVersion", PyNone)
    IN  IF formatVersion.type # "str" THEN "TypeError"
        ELSE IF formatVersion.val # "1" THEN "NotImplementedError"
        ELSE "None"

(***************************************************************************)
(* _compile_tt_glyph_program: the glyph it leaves, the exception, the log. *)
(***************************************************************************)
compile_tt_glyph_program(glyph, ttglyph, ttdata, o) ==
    LET fmt == check_tt_data_format(ttdata)
        glyph_hash == dict_get(ttdata, "id", PyNone)
        checked == check_glyph_hash(glyph, ttglyph, glyph_hash, o)
        asm == dict_get(ttdata, "assembly", PyNone)
    IN  IF fmt # "None"
        THEN [ttglyph |-> ttglyph, raised |-> fmt, log |-> <<>>]
        ELSE IF ~checked.result
        THEN [ttglyph |-> ttglyph, raised |-> "None", log |-> checked.log]
        ELSE IF asm.type = "NoneType"
        THEN [ttglyph |-> ttglyph, raised |-> "None",
              log |-> <<LogRecord("error", "Glyph assembly missing", glyph.name)>>]
        ELSE IF ~Truthy(asm)
        THEN [ttglyph |-> ttglyph, raised |-> "None",
              log |-> <<LogRecord("debug", "Glyph has no instructions", glyph.name)>>]
        ELSE IF fromAssembly_raises(asm)
        THEN [ttglyph |-> [ttglyph EXCEPT !.program = EmptyProgram],
              raised |-> "TypeError", log |-> <<>>]
        ELSE [ttglyph |-> [ttglyph EXCEPT !.program = ProgramFromAssembly(asm.val)],
              raised |-> "None", log |-> <<>>]

(***************************************************************************)
(* _set_composite_flags.  The loop over enumerate(ttglyph.components)      *)
(* carries the component list, use_my_metrics_comp and the log; component  *)
(* i of Python is element i + 1 of the sequence.                           *)
(***************************************************************************)
\* mutant: any lib for the identifier counts, whatever its keys
has_component_lib_entry(glyph, ufo_component_id) ==
    /\ dict_in(glyph.lib, OBJECT_LIBS_KEY)
    /\ dict_in(glyph.lib.val[OBJECT_LIBS_KEY], ufo_component_id.val)

\* the condition of the elif: the glyph lib has a lib for the identifier with
\* the round key or the metrics key
has_component_lib(glyph, ufo_component_id) ==
    /\ dict_in(glyph.lib, OBJECT_LIBS_KEY)
    /\ dict_in(glyph.lib.val[OBJECT_LIBS_KEY], ufo_component_id.val)
    /\ \/ dict_in(glyph.lib.val[OBJECT_LIBS_KEY].val[ufo_component_id.val],
                  TRUETYPE_ROUND_KEY)
       \/ dict_in(glyph.lib.val[OBJECT_LIBS_KEY].val[ufo_component_id.val],
                  TRUETYPE_METRICS_KEY)

\* mutant: the flags are assigned, not or-ed
heuristic_flags_assigned(flags) == ROUND_XY_TO_GRID

\* mutant: the bit is flipped, not set
heuristic_flags_flipped(flags) ==
    IF HasFlag(flags, ROUND_XY_TO_GRID) THEN ClearFlag(flags, ROUND_XY_TO_GRID)
    ELSE SetFlag(flags, ROUND_XY_TO_GRID)

\* no identifier: c.flags |= ROUND_XY_TO_GRID
heuristic_flags(flags) == SetFlag(flags, ROUND_XY_TO_GRID)

\* mutant: without the round key the bit is left as it was
round_flags_kept(component_lib, flags) ==
    IF ~dict_in(component_lib, TRUETYPE_ROUND_KEY) THEN flags
    ELSE IF Truthy(component_lib.val[TRUETYPE_ROUND_KEY])
    THEN SetFlag(flags, ROUND_XY_TO_GRID)
    ELSE ClearFlag(flags, ROUND_XY_TO_GRID)

\* the round block of a component with a lib
round_flags(component_lib, flags) ==
    IF Truthy(dict_get(component_lib, TRUETYPE_ROUND_KEY, PyBool(TRUE)))
    THEN SetFlag(flags, ROUND_XY_TO_GRID)
    ELSE ClearFlag(flags, ROUND_XY_TO_GRID)

\* the condition of the metrics block
wants_metrics(component_lib, auto) ==
    ~auto /\ Truthy(dict_get(component_lib, TRUETYPE_METRICS_KEY, PyBool(FALSE)))

\* the metrics block: the flags and the claimant it leaves
metrics_flags(ufo_component_id, use_my_metrics_comp, flags) ==
    IF Truthy(use_my_metrics_comp)
    THEN [flags |-> ClearFlag(flags, USE_MY_METRICS),
          use_my_metrics_comp |-> use_my_metrics_comp]
    ELSE [flags |-> SetFlag(ClearFlag(flags, USE_MY_METRICS), USE_MY_METRICS),
          use_my_metrics_comp |-> ufo_component_id]

\* mutant: the overlap block runs for every component
overlap_flags_every(glyph, i, flags) ==
    IF dict_in(glyph.lib, TRUETYPE_OVERLAP_KEY)
    THEN IF Truthy(dict_get(glyph.lib, TRUETYPE_OVERLAP_KEY, PyBool(FALSE)))
         THEN SetFlag(flags, OVERLAP_COMPOUND)
         ELSE ClearFlag(flags, OVERLAP_COMPOUND)
    ELSE flags

\* mutant: a false overlap key does not clear the flag
overlap_flags_set_only(glyph, i, flags) ==
    IF i = 0 /\ Truthy(dict_get(glyph.lib, TRUETYPE_OVERLAP_KEY, PyBool(FALSE)))
    THEN SetFlag(flags, OVERLAP_COMPOUND)
    ELSE flags

\* the overlap block
overlap_flags(glyph, i, flags) ==
    IF i = 0 /\ dict_in(glyph.lib, TRUETYPE_OVERLAP_KEY)
    THEN IF Truthy(dict_get(glyph.lib, TRUETYPE_OVERLAP_KEY, PyBool(FALSE)))
         THEN SetFlag(flags, OVERLAP_COMPOUND)
         ELSE ClearFlag(flags, OVERLAP_COMPOUND)
    ELSE flags

\* the body of the loop for one component
set_component_flags(glyph, auto, i, st) ==
    LET c == st.components[i + 1]
        ufo_component_id == glyph.components[i + 1].identifier
        component_lib == glyph.lib.val[OBJECT_LIBS_KEY].val[ufo_component_id.val]
        rounded == round_flags(component_lib, c.flags)
        claimed == metrics_flags(ufo_component_id, st.use_my_metrics_comp, rounded)
        \* the flags, the claimant and the log after the if / elif
        resolved ==
            IF ufo_component_id.type = "NoneType"
            THEN [flags |-> heuristic_flags(c.flags),
                  use_my_metrics_comp |-> st.use_my_metrics_comp,
                  log |-> st.log]
            ELSE IF has_component_lib(glyph, ufo_component_id)
            THEN [flags |-> IF wants_metrics(component_lib, auto)
                            THEN claimed.flags ELSE rounded,
                  use_my_metrics_comp |->
                      IF wants_metrics(component_lib, auto)
                      THEN claimed.use_my_metrics_comp
                      ELSE st.use_my_metrics_comp,
                  log |->
                      st.log
                      \o (IF HasFlag(rounded, ROUND_XY_TO_GRID)
                          THEN <<LogRecord("info", "ROUND_XY_TO_GRID", glyph.name)>>
                          ELSE <<>>)
                      \o (IF wants_metrics(component_lib, auto)
                             /\ Truthy(st.use_my_metrics_comp)
                          THEN <<LogRecord("warning", "Ignoring USE_MY_METRICS flag",
                                           glyph.name)>>
                          ELSE <<>>)]
            ELSE [flags |-> c.flags,
                  use_my_metrics_comp |-> st.use_my_metrics_comp,
                  log |-> st.log]
    IN  [components |->
             [st.components EXCEPT ![i + 1].flags = overlap_flags(glyph, i, resolved.flags)],
         use_my_metrics_comp |-> resolved.use_my_metrics_comp,
         log |-> resolved.log]

RECURSIVE set_component_flags_from(_, _, _, _)
set_component_flags_from(glyph, auto, i, st) ==
    IF i >= Len(st.components) THEN st
    ELSE set_component_flags_from(glyph, auto, i + 1,
                                  set_component_flags(glyph, auto, i, st))

\* mutant: on a mismatch the flags are set heuristically
count_mismatch_heuristic(glyph, ttglyph) ==
    [ttglyph |-> [ttglyph EXCEPT !.components =
                     [i \in 1..Len(ttglyph.components) |->
                         [flags |-> heuristic_flags(ttglyph.components[i].flags)]]],
     log |-> <<LogRecord("error", "Number of components differ", glyph.name)>>]

\* the numbers of components differ: log and return
count_mismatch(glyph, ttglyph) ==
    [ttglyph |-> ttglyph,
     log |-> <<LogRecord("error", "Number of components differ", glyph.name)>>]

\* the glyph it leaves and the log
set_composite_flags(glyph, ttglyph, auto) ==
    IF Len(ttglyph.components) # Len(glyph.components)
    THEN count_mismatch(glyph, ttglyph)
    ELSE LET done == set_component_flags_from(glyph, auto, 0,
                         [components |-> ttglyph.components,
                          use_my_metrics_comp |-> PyNone,
                          log |-> <<>>])
         IN  [ttglyph |-> [ttglyph EXCEPT !.components = done.components],
              log |-> done.log]

\* ttGlyph.isComposite()
isComposite(ttglyph) == ttglyph.numberOfContours = -1

(***************************************************************************)
(* compileGlyphInstructions: the glyph it leaves, the exception, the log.  *)
(* u is self.ufo, o is self.otf.                                           *)
(***************************************************************************)
\* mutant: no program counts as empty
has_empty_program_never(ttGlyph) == FALSE

\* hasattr(ttGlyph, "program") and not ttGlyph.program
has_empty_program(ttGlyph) == HasProgram(ttGlyph) /\ ~ProgramBool(ttGlyph.program)

\* mutant: a skipped glyph loses its empty program
skip_glyph_stripped(ttGlyph, name) ==
    [ttglyph |-> IF has_empty_program(ttGlyph)
                 THEN [ttGlyph EXCEPT !.program = NoProgram] ELSE ttGlyph,
     raised |-> "None",
     log |-> <<LogRecord("info", "Skipping compilation of instructions", name)>>]

\* the glyph is not in the UFO: log and return
skip_glyph(ttGlyph, name) ==
    [ttglyph |-> ttGlyph, raised |-> "None",
     log |-> <<LogRecord("info", "Skipping compilation of instructions", name)>>]

\* mutant: the composite is stripped and its flags are resolved even when
\* compiling its program raised
compile_glyph_instructions_finally(u, o, auto, ttGlyph, name) ==
    IF name \notin DOMAIN u.glyphs
    THEN skip_glyph(ttGlyph, name)
    ELSE
    LET glyph == u.glyphs[name]
        ttdata == dict_get(glyph.lib, TRUETYPE_INSTRUCTIONS_KEY, PyNone)
        compiled ==
            IF ttdata.type # "NoneType"
            THEN compile_tt_glyph_program(glyph, ttGlyph, ttdata, o)
            ELSE [ttglyph |-> ttGlyph, raised |-> "None", log |-> <<>>]
        strip == has_empty_program(compiled.ttglyph)
        stripped ==
            IF strip THEN [compiled.ttglyph EXCEPT !.program = NoProgram]
            ELSE compiled.ttglyph
        flagged == set_composite_flags(glyph, stripped, auto)
    IN  IF isComposite(compiled.ttglyph)
        THEN [ttglyph |-> flagged.ttglyph, raised |-> compiled.raised,
              log |-> compiled.log
                      \o (IF strip
                          THEN <<LogRecord("debug", "Removing empty program", name)>>
                          ELSE <<>>)
                      \o flagged.log]
        ELSE compiled

compile_glyph_instructions(u, o, auto, ttGlyph, name) ==
    IF name \notin DOMAIN u.glyphs
    THEN skip_glyph(ttGlyph, name)
    ELSE
    LET glyph == u.glyphs[name]
        ttdata == dict_get(glyph.lib, TRUETYPE_INSTRUCTIONS_KEY, PyNone)
        compiled ==
            IF ttdata.type # "NoneType"
            THEN compile_tt_glyph_program(glyph, ttGlyph, ttdata, o)
            ELSE [ttglyph |-> ttGlyph, raised |-> "None", log |-> <<>>]
        strip == has_empty_program(compiled.ttglyph)
        stripped ==
            IF strip THEN [compiled.ttglyph EXCEPT !.program = NoProgram]
            ELSE compiled.ttglyph
        flagged == set_composite_flags(glyph, stripped, auto)
    IN  IF compiled.raised # "None" THEN compiled
        ELSE IF isComposite(compiled.ttglyph)
        THEN [ttglyph |-> flagged.ttglyph, raised |-> "None",
              log |-> compiled.log
                      \o (IF strip
                          THEN <<LogRecord("debug", "Removing empty program", name)>>
                          ELSE <<>>)
                      \o flagged.log]
        ELSE compiled

(***************************************************************************)
(* _compile_program: the tables it leaves, the exception, the log.         *)
(***************************************************************************)
\* mutant: a None key is compiled like an empty assembly
optional_key_missing_never(asm) == FALSE

\* asm is None: the optional key is not there
optional_key_missing(asm) == asm.type = "NoneType"

compile_program(u, o, key, table_tag) ==
    LET ttdata == dict_get(u.lib, TRUETYPE_INSTRUCTIONS_KEY, PyNone)
        fmt == check_tt_data_format(ttdata)
        asm == dict_get(ttdata, key, PyNone)
        table == [program |-> IF fromAssembly_raises(asm) THEN EmptyProgram
                              ELSE ProgramFromAssembly(asm.val)]
    IN  IF ~Truthy(ttdata)
        THEN [tables |-> o.tables, raised |-> "None", log |-> <<>>]
        ELSE IF fmt # "None"
        THEN [tables |-> o.tables, raised |-> fmt, log |-> <<>>]
        ELSE IF optional_key_missing(asm)
        THEN [tables |-> o.tables, raised |-> "None", log |-> <<>>]
        ELSE IF ~Truthy(asm)
        THEN [tables |-> o.tables, raised |-> "None",
              log |-> <<LogRecord("debug", "Assembly for table is empty", table_tag)>>]
        ELSE [tables |-> [t \in DOMAIN o.tables \cup {table_tag} |->
                             IF t = table_tag THEN table ELSE o.tables[t]],
              raised |-> IF fromAssembly_raises(asm) THEN "TypeError" ELSE "None",
              log |-> <<>>]

(***************************************************************************)
(* update_maxp: the maxp table it leaves.                                  *)
(***************************************************************************)
\* the names of the loop, in its order
MaxpNames ==
    <<"maxStorage", "maxFunctionDefs", "maxInstructionDefs", "maxStackElements",
      "maxZones", "maxTwilightPoints">>

\* max(sizes, default=0)
MaxOf(sizes) ==
    IF sizes = {} THEN 0 ELSE CHOOSE m \in sizes : \A n \in sizes : n <= m

\* mutant: the value is set even when it is None
copy_maxp_value_unchecked(ttdata, maxp, name) ==
    [maxp EXCEPT ![name] = dict_get(ttdata, name, PyNone)]

\* the body of the loop over the names
copy_maxp_value(ttdata, maxp, name) ==
    LET value == dict_get(ttdata, name, PyNone)
    IN  IF value.type # "NoneType" THEN [maxp EXCEPT ![name] = value] ELSE maxp

RECURSIVE copy_maxp_from(_, _, _)
copy_maxp_from(ttdata, maxp, i) ==
    IF i > Len(MaxpNames) THEN maxp
    ELSE copy_maxp_from(ttdata, copy_maxp_value(ttdata, maxp, MaxpNames[i]), i + 1)

\* mutant: an authored maxSizeOfInstructions is kept
update_maxp_authored(u, o) ==
    LET ttdata == dict_get(u.lib, TRUETYPE_INSTRUCTIONS_KEY, PyNone)
        copied == IF Truthy(ttdata) THEN copy_maxp_from(ttdata, o.maxp, 1)
                  ELSE o.maxp
        sizes == {Len(getBytecode(o.glyf[g].program)) :
                      g \in {n \in DOMAIN o.glyf : HasProgram(o.glyf[n])}}
    IN  IF Truthy(ttdata) /\ dict_in(ttdata, "maxSizeOfInstructions")
        THEN [copied EXCEPT !["maxSizeOfInstructions"] =
                                ttdata.val["maxSizeOfInstructions"]]
        ELSE [copied EXCEPT !["maxSizeOfInstructions"] = PyInt(MaxOf(sizes))]

update_maxp(u, o) ==
    LET ttdata == dict_get(u.lib, TRUETYPE_INSTRUCTIONS_KEY, PyNone)
        copied == IF Truthy(ttdata) THEN copy_maxp_from(ttdata, o.maxp, 1)
                  ELSE o.maxp
        sizes == {Len(getBytecode(o.glyf[g].program)) :
                      g \in {n \in DOMAIN o.glyf : HasProgram(o.glyf[n])}}
    IN  [copied EXCEPT !["maxSizeOfInstructions"] = PyInt(MaxOf(sizes))]

(***************************************************************************)
(* setupTable_cvt: the tables it leaves and the exception.                 *)
(***************************************************************************)
\* decimal numerals, DecimalKeys[i + 1] = str(i)
DecimalKeys == <<"0", "1", "2", "3", "4", "5", "6", "7", "8", "9">>

\* int(k) for the key strings in use: a numeral, or "01"
int(k) ==
    IF k = "01" THEN 1
    ELSE (CHOOSE i \in 1..Len(DecimalKeys) : DecimalKeys[i] = k) - 1

\* The dict comprehension {int(k): v for k, v in cvt_dict.items()} keeps, for
\* each integer key, the value of the last string key that converts to it;
\* last[i] names that string key.
IsLastKey(cvt_dict, last) ==
    /\ DOMAIN last = {int(k) : k \in DOMAIN cvt_dict.val}
    /\ \A i \in DOMAIN last : last[i] \in DOMAIN cvt_dict.val /\ int(last[i]) = i

\* mutant: the list stops before the largest key
cvt_values_short(cvt_dict) ==
    LET max_cvt == CHOOSE m \in DOMAIN cvt_dict : \A n \in DOMAIN cvt_dict : n <= m
    IN  [i \in 1..max_cvt |->
            IF (i - 1) \in DOMAIN cvt_dict THEN cvt_dict[i - 1].val ELSE 0]

\* the value list of the converted dict: max_cvt and the list comprehension
cvt_values(cvt_dict) ==
    LET max_cvt == CHOOSE m \in DOMAIN cvt_dict : \A n \in DOMAIN cvt_dict : n <= m
    IN  [i \in 1..(max_cvt + 1) |->
            IF (i - 1) \in DOMAIN cvt_dict THEN cvt_dict[i - 1].val ELSE 0]

setupTable_cvt(u, o, last) ==
    LET ttdata == dict_get(u.lib, TRUETYPE_INSTRUCTIONS_KEY, PyNone)
        fmt == check_tt_data_format(ttdata)
        cvt_dict == dict_get(ttdata, "controlValue", PyNone)
        converted == [i \in DOMAIN last |-> cvt_dict.val[last[i]]]
        cvts == IF Truthy(ttdata) /\ Truthy(cvt_dict) THEN cvt_values(converted)
                ELSE <<>>
    IN  IF Truthy(ttdata) /\ fmt # "None"
        THEN [tables |-> o.tables, raised |-> fmt]
        ELSE IF cvts # <<>>
        THEN [tables |-> [t \in DOMAIN o.tables \cup {"cvt "} |->
                             IF t = "cvt " THEN [values |-> cvts] ELSE o.tables[t]],
              raised |-> "None"]
        ELSE [tables |-> o.tables, raised |-> "None"]

(***************************************************************************)
(* The fonts of the model.  The output font has the glyphs ".notdef", "a"  *)
(* (simple) and "h" (composite); the source font has "a" and "h".          *)
(***************************************************************************)
\* number of components of the composite glyph
NumComponents == 2

ComponentIds == <<"component0", "component1", "component2", "component3">>

\* a key whose choice is Absent is left out of the dict
Absent == [type |-> "absent"]

\* the dict with the keys of choice that are not Absent
MakeDict(choice) ==
    PyDict([k \in {key \in DOMAIN choice : choice[key] # Absent} |-> choice[k]])

\* every field of the maxp table
MaxpFields ==
    {MaxpNames[i] : i \in 1..Len(MaxpNames)} \cup {"maxSizeOfInstructions"}

\* maxp as the outline compiler leaves it
DefaultMaxp == [n \in MaxpFields |-> PyInt(IF n = "maxZones" THEN 1 ELSE 0)]

Widths == (".notdef" :> 388) @@ ("a" :> 388) @@ ("h" :> 398)

SimpleGlyph(outline, program) ==
    [numberOfContours |-> 1, outline |-> outline, components |-> <<>>,
     program |-> program]

CompositeGlyph(outline, flags, program) ==
    [numberOfContours |-> -1, outline |-> outline,
     components |-> [i \in 1..Len(flags) |-> [flags |-> flags[i]]],
     program |-> program]

SourceGlyph(name, lib, identifiers) ==
    [name |-> name, lib |-> lib,
     components |-> [i \in 1..Len(identifiers) |-> [identifier |-> identifiers[i]]]]

\* glyph-level hint records: each key absent or one of a few values
GlyphRecords ==
    {MakeDict(choice) : choice \in
        [formatVersion : {Absent, PyNone, PyInt(1), PyStr("1"), PyStr("2"), PyStr("1.5")},
         id : {Absent, PyStr("w388a"), PyStr("w398a"), PyStr("w398h")},
         assembly : {Absent, PyStr(""), PyStr("\n"), PyStr("SVTCA[0]"),
                     PyStr("PUSHB[]\n0\nMDAP[1]")}]}

\* programs a glyph may carry before the compiler runs
Programs == {NoProgram, ProgramFromBytecode(<<>>), ProgramFromBytecode(<<176, 0, 47>>)}

\* the lib of a glyph with the hint record ttdata (Absent: no record)
GlyphLib(ttdata, objectLibs, overlap) ==
    MakeDict((TRUETYPE_INSTRUCTIONS_KEY :> ttdata) @@ (OBJECT_LIBS_KEY :> objectLibs)
             @@ (TRUETYPE_OVERLAP_KEY :> overlap))

\* component i has the identifier ComponentIds[i] and asks for its metrics
DefaultIdentifiers == [i \in 1..NumComponents |-> PyStr(ComponentIds[i])]
DefaultObjectLibs ==
    PyDict([k \in {ComponentIds[i] : i \in 1..NumComponents} |->
               PyDict((TRUETYPE_METRICS_KEY :> PyBool(TRUE)))])
DefaultFlags == [i \in 1..NumComponents |-> 2]

Font(libs, identifiers, fontlib) ==
    [lib |-> fontlib,
     glyphs |-> ("a" :> SourceGlyph("a", libs["a"], <<>>))
                @@ ("h" :> SourceGlyph("h", libs["h"], identifiers))]

\* the source font without the glyph name
FontWithout(font, name) ==
    [font EXCEPT !.glyphs = [n \in DOMAIN font.glyphs \ {name} |-> font.glyphs[n]]]

TTFont(programs, flags, maxp) ==
    [glyf |-> (".notdef" :> SimpleGlyph(".notdef", NoProgram))
              @@ ("a" :> SimpleGlyph("a", programs["a"]))
              @@ ("h" :> CompositeGlyph("h", flags, programs["h"])),
     hmtx |-> Widths,
     maxp |-> maxp,
     tables |-> <<>>]

NoCall == [op |-> "none", name |-> ""]

(***************************************************************************)
(* The calls.                                                              *)
(***************************************************************************)
\* self.compileGlyphInstructions(self.otf["glyf"][name], name)
compileGlyphInstructions(name) ==
    /\ name \in DOMAIN otf.glyf
    /\ LET done == compile_glyph_instructions(ufo, otf, autoUseMyMetrics,
                                              otf.glyf[name], name)
       IN  /\ otf' = [otf EXCEPT !.glyf[name] = done.ttglyph]
           /\ raised' = done.raised
           /\ log' = done.log
    /\ before' = otf
    /\ call' = [op |-> "compileGlyphInstructions", name |-> name]
    /\ UNCHANGED <<ufo, autoUseMyMetrics, pass>>

\* self._compile_tt_glyph_program(self.ufo[name], self.otf["glyf"][name], ttdata)
\* with the hint record of the glyph
CompileTTGlyphProgram(name) ==
    /\ name \in DOMAIN ufo.glyphs
    /\ dict_in(ufo.glyphs[name].lib, TRUETYPE_INSTRUCTIONS_KEY)
    /\ LET done == compile_tt_glyph_program(
                       ufo.glyphs[name], otf.glyf[name],
                       ufo.glyphs[name].lib.val[TRUETYPE_INSTRUCTIONS_KEY], otf)
       IN  /\ otf' = [otf EXCEPT !.glyf[name] = done.ttglyph]
           /\ raised' = done.raised
           /\ log' = done.log
    /\ before' = otf
    /\ call' = [op |-> "_compile_tt_glyph_program", name |-> name]
    /\ UNCHANGED <<ufo, autoUseMyMetrics, pass>>

\* self._set_composite_flags(self.ufo[name], self.otf["glyf"][name])
SetCompositeFlags(name) ==
    /\ name \in DOMAIN ufo.glyphs
    /\ isComposite(otf.glyf[name])
    /\ LET done == set_composite_flags(ufo.glyphs[name], otf.glyf[name],
                                       autoUseMyMetrics)
       IN  /\ otf' = [otf EXCEPT !.glyf[name] = done.ttglyph]
           /\ log' = done.log
    /\ raised' = "None"
    /\ before' = otf
    /\ call' = [op |-> "_set_composite_flags", name |-> name]
    /\ UNCHANGED <<ufo, autoUseMyMetrics, pass>>

\* self._check_tt_data_format(ttdata, name) with the hint record of glyph name
CheckGlyphDataFormat(name) ==
    /\ name \in DOMAIN ufo.glyphs
    /\ dict_in(ufo.glyphs[name].lib, TRUETYPE_INSTRUCTIONS_KEY)
    /\ raised' = check_tt_data_format(ufo.glyphs[name].lib.val[TRUETYPE_INSTRUCTIONS_KEY])
    /\ log' = <<>>
    /\ before' = otf
    /\ call' = [op |-> "_check_tt_data_format", name |-> name]
    /\ UNCHANGED <<ufo, otf, autoUseMyMetrics, pass>>

(***************************************************************************)
(* Per-glyph compilation: one glyph carries any hint record and any        *)
(* program, or is missing from the source; the other one carries a valid   *)
(* record or none.                                                         *)
(***************************************************************************)
ValidRecord(name) ==
    MakeDict([formatVersion |-> PyStr("1"),
              id |-> PyStr(HashPointPen(Widths[name], name)),
              assembly |-> PyStr("SVTCA[0]")])

InitGlyph ==
    /\ \E g \in {"a", "h"}, ttdata \in GlyphRecords \cup {Absent}, program \in Programs,
          other \in BOOLEAN, overlap \in {Absent, PyBool(TRUE)},
          flags \in {DefaultFlags, [i \in 1..NumComponents |-> 1542]},
          inSource \in BOOLEAN :
          LET o == IF g = "a" THEN "h" ELSE "a"
              records == (g :> ttdata)
                         @@ (o :> IF other THEN ValidRecord(o) ELSE Absent)
              libs == [n \in {"a", "h"} |->
                          GlyphLib(records[n],
                                   IF n = "h" THEN DefaultObjectLibs ELSE Absent,
                                   IF n = "h" THEN overlap ELSE Absent)]
              font == Font(libs, DefaultIdentifiers, PyDict(<<>>))
          IN  /\ ufo = IF inSource THEN font ELSE FontWithout(font, g)
              /\ otf = TTFont((g :> program) @@ (o :> NoProgram), flags, DefaultMaxp)
    /\ autoUseMyMetrics = FALSE
    /\ before = otf
    /\ call = NoCall
    /\ raised = "None"
    /\ log = <<>>
    /\ pass = 0

NextGlyph ==
    \/ \E name \in DOMAIN otf.glyf : compileGlyphInstructions(name)
    \/ \E name \in DOMAIN ufo.glyphs : CompileTTGlyphProgram(name)
    \/ \E name \in DOMAIN ufo.glyphs : CheckGlyphDataFormat(name)

SpecGlyph == InitGlyph /\ [][NextGlyph]_vars

(***************************************************************************)
(* Composite flag resolution: the composite glyph carries any component    *)
(* flags, identifiers, per-component libs and overlap key.                 *)
(***************************************************************************)
\* flags of a compiled component: ARGS_ARE_XY_VALUES (2) with none or all of
\* ROUND_XY_TO_GRID, USE_MY_METRICS and OVERLAP_COMPOUND
ComponentFlags == {2, 1542}

\* the identifier of source component i: none, the empty string, or its name;
\* the identifiers of a glyph are unique
Identifiers(i) == {PyNone, PyStr(""), PyStr(ComponentIds[i])}

\* the lib of a component
ComponentLibs ==
    {PyDict(<<>>),
     PyDict((TRUETYPE_METRICS_KEY :> PyBool(TRUE))),
     PyDict((TRUETYPE_ROUND_KEY :> PyBool(FALSE))),
     PyDict((TRUETYPE_ROUND_KEY :> PyBool(TRUE)) @@ (TRUETYPE_METRICS_KEY :> PyBool(FALSE)))}

\* glyph.lib[OBJECT_LIBS_KEY]: absent, or a lib for some of the identifiers
ObjectLibs ==
    {Absent} \cup
    {MakeDict(choice) : choice \in
        {c \in [{""} \cup {ComponentIds[i] : i \in 1..NumComponents} ->
                   {Absent} \cup ComponentLibs] :
            c[""] \in {Absent, PyDict((TRUETYPE_METRICS_KEY :> PyBool(TRUE)))}}}

\* the identifiers of n source components
IdentifierSeqs(n) ==
    {s \in [1..n -> UNION {Identifiers(i) : i \in 1..n}] :
        /\ \A i \in 1..n : s[i] \in Identifiers(i)
        /\ \A i, j \in 1..n : i # j /\ s[i] = s[j] => s[i] = PyNone}

InitFlags ==
    /\ \E identifiers \in IdentifierSeqs(NumComponents)
                          \cup IdentifierSeqs(NumComponents - 1)
                          \cup {[i \in 1..(NumComponents + 1) |-> PyNone]},
          flags \in [1..NumComponents -> ComponentFlags],
          objectLibs \in ObjectLibs,
          overlap \in {Absent, PyBool(TRUE), PyBool(FALSE)} :
          LET libs == ("a" :> PyDict(<<>>)) @@ ("h" :> GlyphLib(Absent, objectLibs, overlap))
          IN  /\ ufo = Font(libs, identifiers, PyDict(<<>>))
              /\ otf = TTFont([n \in {"a", "h"} |-> NoProgram], flags, DefaultMaxp)
    /\ autoUseMyMetrics \in BOOLEAN
    /\ before = otf
    /\ call = NoCall
    /\ raised = "None"
    /\ log = <<>>
    /\ pass = 0

NextFlags == \E name \in DOMAIN ufo.glyphs : SetCompositeFlags(name)

SpecFlags == InitFlags /\ [][NextFlags]_vars

(***************************************************************************)
(* The calls on the font-level hint record.                                *)
(***************************************************************************)
\* the ways the dict comprehension of setupTable_cvt can resolve its keys
LastKeys(u) ==
    LET ttdata == dict_get(u.lib, TRUETYPE_INSTRUCTIONS_KEY, PyNone)
        cvt_dict == dict_get(ttdata, "controlValue", PyNone)
    IN  IF Truthy(ttdata) /\ Truthy(cvt_dict)
        THEN {last \in [{int(k) : k \in DOMAIN cvt_dict.val} -> DOMAIN cvt_dict.val] :
                 IsLastKey(cvt_dict, last)}
        ELSE {<<>>}

\* self.setupTable_cvt()
SetupTableCvt ==
    /\ \E last \in LastKeys(ufo) :
          LET done == setupTable_cvt(ufo, otf, last)
          IN  /\ otf' = [otf EXCEPT !.tables = done.tables]
              /\ raised' = done.raised
    /\ log' = <<>>
    /\ before' = otf
    /\ call' = [op |-> "setupTable_cvt", name |-> "cvt "]
    /\ UNCHANGED <<ufo, autoUseMyMetrics, pass>>

\* self.update_maxp()
UpdateMaxp ==
    /\ otf' = [otf EXCEPT !.maxp = update_maxp(ufo, otf)]
    /\ raised' = "None"
    /\ log' = <<>>
    /\ before' = otf
    /\ call' = [op |-> "update_maxp", name |-> "maxp"]
    /\ UNCHANGED <<ufo, autoUseMyMetrics, pass>>

\* self._check_tt_data_format(ttdata, name) with the font-level hint record
CheckFontDataFormat ==
    /\ dict_in(ufo.lib, TRUETYPE_INSTRUCTIONS_KEY)
    /\ raised' = check_tt_data_format(ufo.lib.val[TRUETYPE_INSTRUCTIONS_KEY])
    /\ log' = <<>>
    /\ before' = otf
    /\ call' = [op |-> "_check_tt_data_format", name |-> "lib"]
    /\ UNCHANGED <<ufo, otf, autoUseMyMetrics, pass>>

\* self._compile_program(key, table_tag)
CompileProgram(op, key, table_tag) ==
    /\ LET done == compile_program(ufo, otf, key, table_tag)
       IN  /\ otf' = [otf EXCEPT !.tables = done.tables]
           /\ raised' = done.raised
           /\ log' = done.log
    /\ before' = otf
    /\ call' = [op |-> op, name |-> table_tag]
    /\ UNCHANGED <<ufo, autoUseMyMetrics, pass>>

\* self.setupTable_fpgm()
SetupTableFpgm == CompileProgram("setupTable_fpgm", "fontProgram", "fpgm")

\* self.setupTable_prep()
SetupTablePrep == CompileProgram("setupTable_prep", "controlValueProgram", "prep")

\* the font lib with the hint record ttdata (Absent: no record)
FontLib(ttdata) == MakeDict((TRUETYPE_INSTRUCTIONS_KEY :> ttdata))

NoGlyphLibs == [n \in {"a", "h"} |-> PyDict(<<>>)]

(***************************************************************************)
(* The control value table: the font-level record carries any format       *)
(* version and any control values with keys up to MaxCvtKey.               *)
(***************************************************************************)
MaxCvtKey == 3

\* controlValue dicts: the numerals up to MaxCvtKey and "01" as keys
ControlValues ==
    {MakeDict(choice) : choice \in
        [{DecimalKeys[i + 1] : i \in 0..MaxCvtKey} \cup {"01"} ->
            {Absent, PyInt(500), PyInt(-250)}]}

CvtRecords ==
    {MakeDict(choice) : choice \in
        [formatVersion : {Absent, PyInt(1), PyStr("1"), PyStr("2")},
         controlValue : {Absent, PyNone} \cup ControlValues]}

InitCvt ==
    /\ \E ttdata \in CvtRecords \cup {Absent} :
          ufo = Font(NoGlyphLibs, DefaultIdentifiers, FontLib(ttdata))
    /\ otf = TTFont([n \in {"a", "h"} |-> NoProgram], DefaultFlags, DefaultMaxp)
    /\ autoUseMyMetrics = FALSE
    /\ before = otf
    /\ call = NoCall
    /\ raised = "None"
    /\ log = <<>>
    /\ pass = 0

NextCvt ==
    \/ SetupTableCvt
    \/ CheckFontDataFormat

SpecCvt == InitCvt /\ [][NextCvt]_vars

(***************************************************************************)
(* The maxp table: the font-level record carries any of the maxp fields,   *)
(* the glyphs carry any programs and maxp holds any values.                *)
(***************************************************************************)
MaxpRecords ==
    {MakeDict(choice) : choice \in
        {c \in [MaxpFields \cup {"formatVersion"} ->
                   {Absent, PyNone, PyInt(2), PyStr("1"), PyStr("2")}] :
            /\ c["formatVersion"] \in {PyStr("1"), PyStr("2")}
            /\ c["maxSizeOfInstructions"] \in {Absent, PyInt(2)}
            /\ \A i \in 1..Len(MaxpNames) :
                  c[MaxpNames[i]] \in {Absent, PyNone, PyInt(2)}}}

InitMaxp ==
    /\ \E ttdata \in MaxpRecords \cup {Absent, PyDict(<<>>)} :
          ufo = Font(NoGlyphLibs, DefaultIdentifiers, FontLib(ttdata))
    /\ \E a \in Programs \cup {ProgramFromAssembly("SVTCA[0]")},
          h \in {NoProgram, ProgramFromAssembly("\n"),
                 ProgramFromAssembly("PUSHB[]\n0\nMDAP[1]")},
          maxp \in {DefaultMaxp, [n \in MaxpFields |-> PyInt(9)]} :
          otf = TTFont(("a" :> a) @@ ("h" :> h), DefaultFlags, maxp)
    /\ autoUseMyMetrics = FALSE
    /\ before = otf
    /\ call = NoCall
    /\ raised = "None"
    /\ log = <<>>
    /\ pass = 0

NextMaxp == UpdateMaxp

SpecMaxp == InitMaxp /\ [][NextMaxp]_vars

(***************************************************************************)
(* The global programs: the font-level record carries any format version   *)
(* and any font program and control value program.                         *)
(***************************************************************************)
\* the texts of a global program key
ProgramTexts ==
    {Absent, PyNone, PyStr(""), PyStr("\n"), PyStr("SVTCA[0]"),
     PyStr("PUSHB[]\n0\nMDAP[1]")}

ProgramRecords ==
    {MakeDict(choice) : choice \in
        [formatVersion : {Absent, PyInt(1), PyStr("1"), PyStr("2")},
         fontProgram : ProgramTexts,
         controlValueProgram : ProgramTexts]}

InitProgram ==
    /\ \E ttdata \in ProgramRecords \cup {Absent} :
          ufo = Font(NoGlyphLibs, DefaultIdentifiers, FontLib(ttdata))
    /\ otf = TTFont([n \in {"a", "h"} |-> NoProgram], DefaultFlags, DefaultMaxp)
    /\ autoUseMyMetrics = FALSE
    /\ before = otf
    /\ call = NoCall
    /\ raised = "None"
    /\ log = <<>>
    /\ pass = 0

NextProgram ==
    \/ SetupTableFpgm
    \/ SetupTablePrep

SpecProgram == InitProgram /\ [][NextProgram]_vars

(***************************************************************************)
(* Records whose assembly is not text: the glyph-level record of one glyph *)
(* and the font-level record carry an assembly text or an integer.         *)
(***************************************************************************)
\* assembly values: a text, the empty text, an integer
AssemblyValues == {PyStr("SVTCA[0]"), PyStr(""), PyInt(5)}

InitTranslate ==
    /\ \E g \in {"a", "h"},
          glyphRecord \in [formatVersion : {PyStr("1"), PyStr("2")},
                           id : {PyStr("w388a"), PyStr("w398h")},
                           assembly : AssemblyValues],
          fontRecord \in [formatVersion : {PyStr("1"), PyStr("2")},
                          fontProgram : AssemblyValues \cup {Absent},
                          controlValueProgram : AssemblyValues \cup {Absent}] :
          LET libs == [n \in {"a", "h"} |->
                          GlyphLib(IF n = g THEN MakeDict(glyphRecord) ELSE Absent,
                                   IF n = "h" THEN DefaultObjectLibs ELSE Absent,
                                   Absent)]
          IN  ufo = Font(libs, DefaultIdentifiers, FontLib(MakeDict(fontRecord)))
    /\ otf = TTFont([n \in {"a", "h"} |-> NoProgram], DefaultFlags, DefaultMaxp)
    /\ autoUseMyMetrics = FALSE
    /\ before = otf
    /\ call = NoCall
    /\ raised = "None"
    /\ log = <<>>
    /\ pass = 0

NextTranslate ==
    \/ \E name \in DOMAIN otf.glyf : compileGlyphInstructions(name)
    \/ \E name \in DOMAIN ufo.glyphs : CompileTTGlyphProgram(name)
    \/ SetupTableFpgm
    \/ SetupTablePrep

SpecTranslate == InitTranslate /\ [][NextTranslate]_vars

(***************************************************************************)
(* Runs of the whole compiler over one font.  The caller starts a run and  *)
(* calls compileGlyphInstructions for every glyph of the output font, then *)
(* setupTable_cvt, setupTable_fpgm, setupTable_prep and update_maxp; an    *)
(* exception ends the run.  A later run works on the output of the one     *)
(* before.                                                                 *)
(***************************************************************************)
\* number of runs over the font
NumPasses == 2

\* the calls of a run, in their order
RunOrder ==
    <<[op |-> "compileGlyphInstructions", name |-> ".notdef"],
      [op |-> "compileGlyphInstructions", name |-> "a"],
      [op |-> "compileGlyphInstructions", name |-> "h"],
      [op |-> "setupTable_cvt", name |-> "cvt "],
      [op |-> "setupTable_fpgm", name |-> "fpgm"],
      [op |-> "setupTable_prep", name |-> "prep"],
      [op |-> "update_maxp", name |-> "maxp"]>>

\* the caller starts a run: at first, after the last call of a run, or after
\* a run that an exception ended
StartRun ==
    /\ pass < NumPasses
    /\ \/ call = NoCall
       \/ call = RunOrder[Len(RunOrder)]
       \/ raised # "None"
    /\ pass' = pass + 1
    /\ call' = [op |-> "run", name |-> ""]
    /\ before' = otf
    /\ raised' = "None"
    /\ log' = <<>>
    /\ UNCHANGED <<ufo, otf, autoUseMyMetrics>>

\* c is the next call of the run
Due(c) ==
    /\ pass >= 1
    /\ raised = "None"
    /\ \E k \in 1..Len(RunOrder) :
          /\ RunOrder[k] = c
          /\ IF k = 1 THEN call.op = "run" ELSE call = RunOrder[k - 1]

\* a glyph-level record that passes both checks, one with the hash of another
\* glyph, or none
RunGlyphRecords(name) ==
    {Absent, ValidRecord(name),
     MakeDict([formatVersion |-> PyStr("1"), id |-> PyStr("w398a"),
               assembly |-> PyStr("SVTCA[0]")])}

\* font-level records of a run
RunFontRecords ==
    {MakeDict(choice) : choice \in
        [formatVersion : {PyStr("1"), PyStr("2")},
         controlValue : {Absent, PyDict(("1" :> PyInt(500)) @@ ("3" :> PyInt(-250)))},
         fontProgram : {Absent, PyStr(""), PyStr("SVTCA[0]")},
         controlValueProgram : {Absent, PyStr("PUSHB[]\n0\nMDAP[1]")},
         maxStorage : {Absent, PyInt(2)}]}

InitRun ==
    /\ \E a \in {Absent, ValidRecord("a")}, h \in RunGlyphRecords("h"),
          program \in {NoProgram, ProgramFromBytecode(<<>>)},
          identifiers \in {DefaultIdentifiers, [i \in 1..NumComponents |-> PyNone],
                           [i \in 1..NumComponents |->
                               IF i = 1 THEN PyStr("") ELSE PyStr(ComponentIds[i])]},
          objectLibs \in {Absent,
                          PyDict([k \in {""} \cup {ComponentIds[i] : i \in 1..NumComponents}
                                     |-> PyDict((TRUETYPE_METRICS_KEY :> PyBool(TRUE)))])},
          flags \in {DefaultFlags, [i \in 1..NumComponents |-> 1542]},
          overlap \in {Absent, PyBool(TRUE)},
          ttdata \in RunFontRecords \cup {Absent} :
          LET libs == ("a" :> GlyphLib(a, Absent, Absent))
                      @@ ("h" :> GlyphLib(h, objectLibs, overlap))
          IN  /\ ufo = Font(libs, identifiers, FontLib(ttdata))
              /\ otf = TTFont(("a" :> NoProgram) @@ ("h" :> program), flags, DefaultMaxp)
    /\ autoUseMyMetrics \in BOOLEAN
    /\ before = otf
    /\ call = NoCall
    /\ raised = "None"
    /\ log = <<>>
    /\ pass = 0

NextRun ==
    \/ StartRun
    \/ \E name \in DOMAIN otf.glyf :
          /\ Due([op |-> "compileGlyphInstructions", name |-> name])
          /\ compileGlyphInstructions(name)
    \/ Due([op |-> "setupTable_cvt", name |-> "cvt "]) /\ SetupTableCvt
    \/ Due([op |-> "setupTable_fpgm", name |-> "fpgm"]) /\ SetupTableFpgm
    \/ Due([op |-> "setupTable_prep", name |-> "prep"]) /\ SetupTablePrep
    \/ Due([op |-> "update_maxp", name |-> "maxp"]) /\ UpdateMaxp

SpecRun == InitRun /\ [][NextRun]_vars

(***************************************************************************)
(* Glyph compilation in any order: the caller compiles the glyphs of the   *)
(* font the outline compiler left, in any order and any number of times,   *)
(* and updates maxp at any moment.                                         *)
(***************************************************************************)
\* the output font as the outline compiler leaves it: no glyph program
OutlineFont ==
    TTFont(("a" :> NoProgram) @@ ("h" :> NoProgram), DefaultFlags, DefaultMaxp)

\* glyph-level records of the glyph name: none, valid with a short or a long
\* program, the hash of another glyph, an unknown format version
OrderGlyphRecords(name) ==
    {Absent, ValidRecord(name),
     MakeDict([formatVersion |-> PyStr("1"),
               id |-> PyStr(HashPointPen(Widths[name], name)),
               assembly |-> PyStr("PUSHB[]\n0\nMDAP[1]")]),
     MakeDict([formatVersion |-> PyStr("1"), id |-> PyStr("w388x"),
               assembly |-> PyStr("SVTCA[0]")]),
     MakeDict([formatVersion |-> PyStr("2"),
               id |-> PyStr(HashPointPen(Widths[name], name)),
               assembly |-> PyStr("SVTCA[0]")])}

InitOrder ==
    /\ \E a \in OrderGlyphRecords("a"), h \in OrderGlyphRecords("h"),
          identifiers \in {DefaultIdentifiers, [i \in 1..NumComponents |-> PyNone]},
          overlap \in {Absent, PyBool(TRUE)} :
          LET libs == ("a" :> GlyphLib(a, Absent, Absent))
                      @@ ("h" :> GlyphLib(h, DefaultObjectLibs, overlap))
          IN  ufo = Font(libs, identifiers, PyDict(<<>>))
    /\ otf = OutlineFont
    /\ autoUseMyMetrics \in BOOLEAN
    /\ before = otf
    /\ call = NoCall
    /\ raised = "None"
    /\ log = <<>>
    /\ pass = 0

NextOrder ==
    \/ \E name \in DOMAIN otf.glyf : compileGlyphInstructions(name)
    \/ UpdateMaxp

SpecOrder == InitOrder /\ [][NextOrder]_vars

(***************************************************************************)
(* Properties.                                                             *)
(***************************************************************************)

\* C1: after _compile_tt_glyph_program on a glyph of the source that had no
\* program, the glyph has a program if and only if the record's formatVersion
\* is the string "1", its id is the hash of the compiled glyph and its advance
\* width, and its assembly is a non-empty string.
C1_ProgramAttachedIff ==
    (call.op = "_compile_tt_glyph_program" /\ ~HasProgram(before.glyf[call.name])) =>
        LET R == ufo.glyphs[call.name].lib.val[TRUETYPE_INSTRUCTIONS_KEY]
            G == before.glyf[call.name]
            formatVersion == dict_get(R, "formatVersion", PyNone)
            id == dict_get(R, "id", PyNone)
            assembly == dict_get(R, "assembly", PyNone)
        IN  HasProgram(otf.glyf[call.name]) <=>
                /\ formatVersion.type = "str" /\ formatVersion.val = "1"
                /\ id.type = "str"
                /\ id.val = HashPointPen(before.hmtx[call.name], G.outline)
                /\ assembly.type = "str" /\ assembly.val # ""

\* C1 witness: the call attached a program to a glyph that had none.
C1_Witness ==
    /\ call.op = "_compile_tt_glyph_program"
    /\ ~HasProgram(before.glyf[call.name])
    /\ HasProgram(otf.glyf[call.name])
    /\ getBytecode(otf.glyf[call.name].program) = <<176, 0, 47>>

\* C2: _check_tt_data_format raises TypeError when formatVersion is missing or
\* not a string, NotImplementedError when it is a string other than "1", and
\* returns when it is "1"; the outcome depends on no other key of the record
\* and the output font is unchanged.
C2_FormatGuardOutcomes ==
    call.op = "_check_tt_data_format" =>
        LET R == IF call.name = "lib" THEN ufo.lib.val[TRUETYPE_INSTRUCTIONS_KEY]
                 ELSE ufo.glyphs[call.name].lib.val[TRUETYPE_INSTRUCTIONS_KEY]
            missing == ~dict_in(R, "formatVersion")
        IN  /\ raised = IF missing \/ R.val["formatVersion"].type # "str"
                        THEN "TypeError"
                        ELSE IF R.val["formatVersion"].val # "1"
                        THEN "NotImplementedError"
                        ELSE "None"
            /\ otf = before

\* C2 witness: the guard raised the unsupported-version error on a record that
\* carries other keys as well.
C2_Witness ==
    /\ call.op = "_check_tt_data_format"
    /\ call.name = "a"
    /\ raised = "NotImplementedError"
    /\ dict_in(ufo.glyphs["a"].lib.val[TRUETYPE_INSTRUCTIONS_KEY], "assembly")

\* C3: after setupTable_cvt, no "cvt " table is installed when the controlValue
\* mapping is absent, None or empty; when it is non-empty and the format guard
\* passes, the table has length (largest integer key + 1), entry i is an
\* authored value of a key that converts to i if there is one and 0 otherwise.
C3_CvtTable ==
    call.op = "setupTable_cvt" =>
        LET ttdata == dict_get(ufo.lib, TRUETYPE_INSTRUCTIONS_KEY, PyNone)
            mapping == IF ttdata.type = "dict"
                       THEN dict_get(ttdata, "controlValue", PyNone) ELSE PyNone
            keys == {int(k) : k \in DOMAIN mapping.val}
            values == otf.tables["cvt "].values
        IN  IF mapping.type = "NoneType" \/ DOMAIN mapping.val = {}
            THEN "cvt " \notin DOMAIN otf.tables
            ELSE IF raised # "None"
            THEN "cvt " \notin DOMAIN otf.tables
            ELSE /\ "cvt " \in DOMAIN otf.tables
                 /\ \E largest \in keys :
                       /\ \A n \in keys : n <= largest
                       /\ Len(values) = largest + 1
                 /\ \A i \in 0..(Len(values) - 1) :
                       IF i \in keys
                       THEN \E k \in DOMAIN mapping.val :
                               int(k) = i /\ values[i + 1] = mapping.val[k].val
                       ELSE values[i + 1] = 0

\* C3 witness: the table of the mapping {"1": 500, "2": 500, "3": -250}.
C3_Witness ==
    /\ call.op = "setupTable_cvt"
    /\ "cvt " \in DOMAIN otf.tables
    /\ otf.tables["cvt "].values = <<0, 500, 500, -250>>

\* C4: after update_maxp, maxSizeOfInstructions is the largest bytecode length
\* of the glyphs that have a program, 0 when none has one, whatever the field
\* held before and whatever the font-level record holds.
C4_MaxSizeOfInstructions ==
    call.op = "update_maxp" =>
        LET hinted == {g \in DOMAIN otf.glyf : HasProgram(otf.glyf[g])}
            size == otf.maxp["maxSizeOfInstructions"]
        IN  /\ size.type = "int"
            /\ hinted = {} => size.val = 0
            /\ hinted # {} =>
                  /\ \E g \in hinted : size.val = Len(getBytecode(otf.glyf[g].program))
                  /\ \A g \in hinted : size.val >= Len(getBytecode(otf.glyf[g].program))

\* C4 witness: the record authors maxSizeOfInstructions 2, maxp held 9, and
\* the longest program has 3 bytes.
C4_Witness ==
    /\ call.op = "update_maxp"
    /\ dict_in(ufo.lib, TRUETYPE_INSTRUCTIONS_KEY)
    /\ dict_get(ufo.lib.val[TRUETYPE_INSTRUCTIONS_KEY], "maxSizeOfInstructions", PyNone)
           = PyInt(2)
    /\ before.maxp["maxSizeOfInstructions"] = PyInt(9)
    /\ otf.maxp["maxSizeOfInstructions"] = PyInt(3)

\* C5: after update_maxp, each of the six copied maxp fields holds the value of
\* the font-level record when the record has one (the key is there and is not
\* None) and the value maxp held before the call otherwise.
C5_MaxpFieldsCopied ==
    call.op = "update_maxp" =>
        LET ttdata == dict_get(ufo.lib, TRUETYPE_INSTRUCTIONS_KEY, PyNone)
        IN  \A name \in MaxpFields \ {"maxSizeOfInstructions"} :
                IF /\ ttdata.type = "dict"
                   /\ name \in DOMAIN ttdata.val
                   /\ ttdata.val[name].type # "NoneType"
                THEN otf.maxp[name] = ttdata.val[name]
                ELSE otf.maxp[name] = before.maxp[name]

\* C5 witness: maxStorage was copied and maxZones, absent from the record, kept
\* the value it had.
C5_Witness ==
    /\ call.op = "update_maxp"
    /\ dict_in(ufo.lib, TRUETYPE_INSTRUCTIONS_KEY)
    /\ dict_get(ufo.lib.val[TRUETYPE_INSTRUCTIONS_KEY], "maxStorage", PyNone) = PyInt(2)
    /\ ~dict_in(ufo.lib.val[TRUETYPE_INSTRUCTIONS_KEY], "maxZones")
    /\ before.maxp["maxStorage"] = PyInt(9)
    /\ otf.maxp["maxStorage"] = PyInt(2)
    /\ otf.maxp["maxZones"] = PyInt(9)

\* C6: after _set_composite_flags on a composite glyph, whatever the flags,
\* identifiers and libs were, at most one component has USE_MY_METRICS set.
C6_AtMostOneUseMyMetrics ==
    call.op = "_set_composite_flags" =>
        Cardinality({i \in 1..Len(otf.glyf[call.name].components) :
                        HasFlag(otf.glyf[call.name].components[i].flags,
                                USE_MY_METRICS)}) <= 1

\* C7: with autoUseMyMetrics off and matching component counts, when some
\* components have a lib that asks for USE_MY_METRICS, after
\* _set_composite_flags the first of them has the flag set and every later
\* one has it cleared, whatever the identifiers are.
C7_FirstRequesterWins ==
    (/\ call.op = "_set_composite_flags"
     /\ ~autoUseMyMetrics
     /\ Len(ufo.glyphs[call.name].components) = Len(otf.glyf[call.name].components)) =>
        LET glyph == ufo.glyphs[call.name]
            components == otf.glyf[call.name].components
            requesters ==
                {i \in 1..Len(components) :
                    /\ glyph.components[i].identifier.type = "str"
                    /\ dict_in(glyph.lib, OBJECT_LIBS_KEY)
                    /\ dict_in(glyph.lib.val[OBJECT_LIBS_KEY],
                               glyph.components[i].identifier.val)
                    /\ Truthy(dict_get(
                           glyph.lib.val[OBJECT_LIBS_KEY].val[
                               glyph.components[i].identifier.val],
                           TRUETYPE_METRICS_KEY, PyBool(FALSE)))}
        IN  \A i \in requesters :
                HasFlag(components[i].flags, USE_MY_METRICS)
                    <=> \A j \in requesters : i <= j

\* C8 as stated: after _set_composite_flags no component at index > 0 has
\* OVERLAP_COMPOUND set.
C8_NoOverlapBeyondFirst ==
    call.op = "_set_composite_flags" =>
        \A i \in 2..Len(otf.glyf[call.name].components) :
            ~HasFlag(otf.glyf[call.name].components[i].flags, OVERLAP_COMPOUND)

\* C8: after _set_composite_flags a component at index > 0 has
\* OVERLAP_COMPOUND set only if it had it set before the call.
C8_NoOverlapSetBeyondFirst ==
    call.op = "_set_composite_flags" =>
        \A i \in 2..Len(otf.glyf[call.name].components) :
            HasFlag(otf.glyf[call.name].components[i].flags, OVERLAP_COMPOUND)
                => HasFlag(before.glyf[call.name].components[i].flags, OVERLAP_COMPOUND)

\* C8 witness: the glyph has a true overlap key, the first component got
\* OVERLAP_COMPOUND and the second one, resolved as well, did not.
C8_Witness ==
    /\ call.op = "_set_composite_flags"
    /\ Len(ufo.glyphs[call.name].components) = Len(otf.glyf[call.name].components)
    /\ dict_get(ufo.glyphs[call.name].lib, TRUETYPE_OVERLAP_KEY, PyNone) = PyBool(TRUE)
    /\ ~HasFlag(before.glyf[call.name].components[1].flags, OVERLAP_COMPOUND)
    /\ HasFlag(otf.glyf[call.name].components[1].flags, OVERLAP_COMPOUND)
    /\ ~HasFlag(before.glyf[call.name].components[2].flags, ROUND_XY_TO_GRID)
    /\ HasFlag(otf.glyf[call.name].components[2].flags, ROUND_XY_TO_GRID)
    /\ ~HasFlag(otf.glyf[call.name].components[2].flags, OVERLAP_COMPOUND)

\* C9: after _set_composite_flags with matching component counts, the
\* OVERLAP_COMPOUND bit of component 0 is the truth value of the glyph's
\* overlap key when the glyph lib has the key, whatever the identifier and
\* lib of the component, and is unchanged when it has not; the bit of every
\* later component is unchanged.
C9_OverlapOnFirst ==
    (/\ call.op = "_set_composite_flags"
     /\ Len(ufo.glyphs[call.name].components) = Len(otf.glyf[call.name].components)) =>
        LET glyph == ufo.glyphs[call.name]
            old == before.glyf[call.name].components
            new == otf.glyf[call.name].components
        IN  /\ Len(new) > 0 =>
                  HasFlag(new[1].flags, OVERLAP_COMPOUND) =
                      IF TRUETYPE_OVERLAP_KEY \in DOMAIN glyph.lib.val
                      THEN glyph.lib.val[TRUETYPE_OVERLAP_KEY].val
                      ELSE HasFlag(old[1].flags, OVERLAP_COMPOUND)
            /\ \A i \in 2..Len(new) :
                  HasFlag(new[i].flags, OVERLAP_COMPOUND)
                      = HasFlag(old[i].flags, OVERLAP_COMPOUND)

\* C9 witness: a false overlap key cleared OVERLAP_COMPOUND on a first
\* component that has no identifier.
C9_Witness ==
    /\ call.op = "_set_composite_flags"
    /\ Len(ufo.glyphs[call.name].components) = Len(otf.glyf[call.name].components)
    /\ dict_get(ufo.glyphs[call.name].lib, TRUETYPE_OVERLAP_KEY, PyNone) = PyBool(FALSE)
    /\ ufo.glyphs[call.name].components[1].identifier = PyNone
    /\ HasFlag(before.glyf[call.name].components[1].flags, OVERLAP_COMPOUND)
    /\ ~HasFlag(otf.glyf[call.name].components[1].flags, OVERLAP_COMPOUND)
    /\ HasFlag(otf.glyf[call.name].components[2].flags, OVERLAP_COMPOUND)

\* C10 as stated: after _set_composite_flags with matching component counts,
\* a component without identifier, at any index and whatever the glyph lib
\* holds, has ROUND_XY_TO_GRID set and every other bit as before.
C10_NoIdentifierOnlyRounds ==
    (/\ call.op = "_set_composite_flags"
     /\ Len(ufo.glyphs[call.name].components) = Len(otf.glyf[call.name].components)) =>
        \A i \in 1..Len(otf.glyf[call.name].components) :
            ufo.glyphs[call.name].components[i].identifier.type = "NoneType" =>
                otf.glyf[call.name].components[i].flags
                    = SetFlag(before.glyf[call.name].components[i].flags,
                              ROUND_XY_TO_GRID)

\* C10: after _set_composite_flags with matching component counts, a
\* component without identifier has ROUND_XY_TO_GRID set and every other bit
\* as before, except that at index 0 the OVERLAP_COMPOUND bit is the truth
\* value of the glyph's overlap key when the glyph lib has that key.
C10_NoIdentifierRoundsAndOverlap ==
    (/\ call.op = "_set_composite_flags"
     /\ Len(ufo.glyphs[call.name].components) = Len(otf.glyf[call.name].components)) =>
        LET glyph == ufo.glyphs[call.name]
            old == before.glyf[call.name].components
            new == otf.glyf[call.name].components
        IN  \A i \in 1..Len(new) :
                glyph.components[i].identifier.type = "NoneType" =>
                    IF i = 1 /\ TRUETYPE_OVERLAP_KEY \in DOMAIN glyph.lib.val
                    THEN /\ ClearFlag(new[i].flags, OVERLAP_COMPOUND)
                              = ClearFlag(SetFlag(old[i].flags, ROUND_XY_TO_GRID),
                                          OVERLAP_COMPOUND)
                         /\ HasFlag(new[i].flags, OVERLAP_COMPOUND)
                              = glyph.lib.val[TRUETYPE_OVERLAP_KEY].val
                    ELSE new[i].flags = SetFlag(old[i].flags, ROUND_XY_TO_GRID)

\* C10 witness: a component without identifier at index 1 got
\* ROUND_XY_TO_GRID and kept USE_MY_METRICS and OVERLAP_COMPOUND clear, while
\* the one at index 0 got OVERLAP_COMPOUND from the glyph's overlap key.
C10_Witness ==
    /\ call.op = "_set_composite_flags"
    /\ Len(ufo.glyphs[call.name].components) = Len(otf.glyf[call.name].components)
    /\ ufo.glyphs[call.name].components[1].identifier = PyNone
    /\ ufo.glyphs[call.name].components[2].identifier = PyNone
    /\ before.glyf[call.name].components[1].flags = 2
    /\ before.glyf[call.name].components[2].flags = 2
    /\ otf.glyf[call.name].components[1].flags = 1030
    /\ otf.glyf[call.name].components[2].flags = 6

\* C11: after _set_composite_flags with matching component counts, a component
\* whose identifier has a lib with the round key or the metrics key has
\* ROUND_XY_TO_GRID cleared when the lib's round key is false and set
\* otherwise (a lib with the metrics key alone included), whatever the bit
\* was before.
C11_RoundUnlessDisabled ==
    (/\ call.op = "_set_composite_flags"
     /\ Len(ufo.glyphs[call.name].components) = Len(otf.glyf[call.name].components)) =>
        LET glyph == ufo.glyphs[call.name]
            new == otf.glyf[call.name].components
        IN  \A i \in 1..Len(new) :
                LET id == glyph.components[i].identifier
                    libs == dict_get(glyph.lib, OBJECT_LIBS_KEY, PyDict(<<>>))
                    meta == dict_get(libs, id.val, PyDict(<<>>))
                IN  (/\ id.type = "str"
                     /\ id.val \in DOMAIN libs.val
                     /\ DOMAIN meta.val \cap {TRUETYPE_ROUND_KEY, TRUETYPE_METRICS_KEY} # {}) =>
                        HasFlag(new[i].flags, ROUND_XY_TO_GRID)
                            = ~(/\ TRUETYPE_ROUND_KEY \in DOMAIN meta.val
                                /\ meta.val[TRUETYPE_ROUND_KEY] = PyBool(FALSE))

\* C11 witness: the first component's lib holds only a metrics request and
\* its ROUND_XY_TO_GRID bit, clear before, is set; the second component's lib
\* disables rounding and its bit, set before, is cleared.
C11_Witness ==
    /\ call.op = "_set_composite_flags"
    /\ Len(ufo.glyphs[call.name].components) = 2
    /\ Len(otf.glyf[call.name].components) = 2
    /\ ufo.glyphs[call.name].components[1].identifier = PyStr("component0")
    /\ ufo.glyphs[call.name].components[2].identifier = PyStr("component1")
    /\ dict_in(ufo.glyphs[call.name].lib, OBJECT_LIBS_KEY)
    /\ dict_get(ufo.glyphs[call.name].lib.val[OBJECT_LIBS_KEY], "component0", PyNone)
           = PyDict((TRUETYPE_METRICS_KEY :> PyBool(TRUE)))
    /\ dict_get(ufo.glyphs[call.name].lib.val[OBJECT_LIBS_KEY], "component1", PyNone)
           = PyDict((TRUETYPE_ROUND_KEY :> PyBool(FALSE)))
    /\ ~HasFlag(before.glyf[call.name].components[1].flags, ROUND_XY_TO_GRID)
    /\ HasFlag(otf.glyf[call.name].components[1].flags, ROUND_XY_TO_GRID)
    /\ HasFlag(before.glyf[call.name].components[2].flags, ROUND_XY_TO_GRID)
    /\ ~HasFlag(otf.glyf[call.name].components[2].flags, ROUND_XY_TO_GRID)

C13_MissingGlyphSkipped ==
    (call.op = "compileGlyphInstructions" /\ call.name \notin DOMAIN ufo.glyphs) =>
        /\ otf = before
        /\ raised = "None"
        /\ Len(log) = 1
        /\ log[1].level = "info"
        /\ log[1].about = call.name

\* C13 witness: the composite glyph is missing from the source; it carries an
\* empty program and flags without ROUND_XY_TO_GRID, and the call kept both.
C13_Witness ==
    /\ call.op = "compileGlyphInstructions"
    /\ call.name = "h"
    /\ "h" \notin DOMAIN ufo.glyphs
    /\ otf.glyf["h"].program = ProgramFromBytecode(<<>>)
    /\ otf.glyf["h"].components[1].flags = 2
    /\ Len(log) = 1

\* C14: after setupTable_fpgm / setupTable_prep on an output font without the
\* table, the table is installed if and only if the font-level record is
\* there, its formatVersion is the string "1" and its fontProgram /
\* controlValueProgram key holds a non-empty assembly; when the guard passes,
\* a missing or None key logs nothing and an empty assembly logs one debug
\* record; no other table changes.
C14_GlobalProgramInstalledIff ==
    (/\ call.op \in {"setupTable_fpgm", "setupTable_prep"}
     /\ call.name \notin DOMAIN before.tables) =>
        LET key == IF call.op = "setupTable_fpgm" THEN "fontProgram"
                   ELSE "controlValueProgram"
            R == dict_get(ufo.lib, TRUETYPE_INSTRUCTIONS_KEY, PyDict(<<>>))
            formatVersion == dict_get(R, "formatVersion", PyNone)
            asm == dict_get(R, key, PyNone)
            supported == formatVersion.type = "str" /\ formatVersion.val = "1"
        IN  /\ call.name \in DOMAIN otf.tables <=>
                  /\ supported
                  /\ asm.type = "str" /\ asm.val # ""
            /\ (supported /\ asm.type = "NoneType") => (raised = "None" /\ log = <<>>)
            /\ (supported /\ asm = PyStr("")) =>
                  /\ raised = "None"
                  /\ Len(log) = 1
                  /\ log[1].level = "debug"
            /\ \A t \in DOMAIN before.tables :
                  t \in DOMAIN otf.tables /\ otf.tables[t] = before.tables[t]
            /\ DOMAIN otf.tables \subseteq DOMAIN before.tables \cup {call.name}

\* C14 witness: "prep" was installed from the control value program while
\* "fpgm", whose key is None, had been skipped.
C14_Witness ==
    /\ call.op = "setupTable_prep"
    /\ "prep" \notin DOMAIN before.tables
    /\ "prep" \in DOMAIN otf.tables
    /\ getBytecode(otf.tables["prep"].program) = <<176, 0, 47>>
    /\ dict_get(ufo.lib.val[TRUETYPE_INSTRUCTIONS_KEY], "fontProgram", PyStr("")) = PyNone
    /\ "fpgm" \notin DOMAIN otf.tables

\* C15: _set_composite_flags on a glyph whose source has another number of
\* components than the compiled glyph emits one error record, raises nothing
\* and leaves the whole output font as it was: every flag of the glyph's
\* components and every other glyph.
C15_CountMismatchKeepsFlags ==
    (/\ call.op = "_set_composite_flags"
     /\ Len(ufo.glyphs[call.name].components) # Len(before.glyf[call.name].components)) =>
        /\ \A g \in DOMAIN before.glyf : otf.glyf[g] = before.glyf[g]
        /\ otf = before
        /\ raised = "None"
        /\ Len(log) = 1
        /\ log[1].level = "error"

\* C15 witness: the source has one component less than the compiled glyph,
\* whose flags lack ROUND_XY_TO_GRID, and a true overlap key; all flags stay.
C15_Witness ==
    /\ call.op = "_set_composite_flags"
    /\ call.name = "h"
    /\ Len(ufo.glyphs["h"].components) + 1 = Len(otf.glyf["h"].components)
    /\ ufo.glyphs["h"].components[1].identifier = PyNone
    /\ dict_get(ufo.glyphs["h"].lib, TRUETYPE_OVERLAP_KEY, PyNone) = PyBool(TRUE)
    /\ \A i \in 1..Len(otf.glyf["h"].components) : otf.glyf["h"].components[i].flags = 2
    /\ Len(log) = 1

\* C16: a font-level record whose formatVersion is not the string "1" is
\* rejected by the format guard before any other field is read, so after
\* update_maxp on such a record none of the maxp fields that are copied from
\* the record has changed.
C16_GuardBeforeMaxp ==
    (/\ call.op = "update_maxp"
     /\ dict_in(ufo.lib, TRUETYPE_INSTRUCTIONS_KEY)
     /\ dict_get(ufo.lib.val[TRUETYPE_INSTRUCTIONS_KEY], "formatVersion", PyNone)
            # PyStr("1")) =>
        \A i \in 1..Len(MaxpNames) : otf.maxp[MaxpNames[i]] = before.maxp[MaxpNames[i]]

\* C17 as stated: in _compile_tt_glyph_program a record that fails the format
\* guard and a record that fails the hash check are both absorbed: nothing
\* is raised, a diagnostic is logged and the glyph has no program.
C17_GuardAndHashAbsorbed ==
    call.op = "_compile_tt_glyph_program" =>
        LET R == ufo.glyphs[call.name].lib.val[TRUETYPE_INSTRUCTIONS_KEY]
            guardFails == dict_get(R, "formatVersion", PyNone) # PyStr("1")
            hashFails == dict_get(R, "id", PyNone)
                            # PyStr(HashPointPen(before.hmtx[call.name],
                                                 before.glyf[call.name].outline))
        IN  (guardFails \/ hashFails) =>
                /\ raised = "None"
                /\ Len(log) >= 1
                /\ ~HasProgram(otf.glyf[call.name])

\* C17: in _compile_tt_glyph_program a record that passes the format guard
\* and fails the hash check is absorbed: nothing is raised, one error record
\* is logged and the output font is as before; a record that fails the
\* format guard raises TypeError or NotImplementedError to the caller,
\* logs nothing and leaves the output font as before as well.
C17_HashAbsorbedGuardRaises ==
    call.op = "_compile_tt_glyph_program" =>
        LET R == ufo.glyphs[call.name].lib.val[TRUETYPE_INSTRUCTIONS_KEY]
            formatVersion == dict_get(R, "formatVersion", PyNone)
            guardFails == formatVersion # PyStr("1")
            hashFails == dict_get(R, "id", PyNone)
                            # PyStr(HashPointPen(before.hmtx[call.name],
                                                 before.glyf[call.name].outline))
        IN  /\ guardFails =>
                  /\ raised = IF formatVersion.type = "str"
                              THEN "NotImplementedError" ELSE "TypeError"
                  /\ log = <<>>
                  /\ otf = before
            /\ (~guardFails /\ hashFails) =>
                  /\ raised = "None"
                  /\ Len(log) = 1
                  /\ log[1].level = "error"
                  /\ otf = before

\* C17 witness: the record of "a" passes the guard, carries the hash of
\* another glyph and an assembly; one error is logged and no program is
\* attached.
C17_Witness ==
    /\ call.op = "_compile_tt_glyph_program"
    /\ call.name = "a"
    /\ ufo.glyphs["a"].lib.val[TRUETYPE_INSTRUCTIONS_KEY]
           = MakeDict([formatVersion |-> PyStr("1"), id |-> PyStr("w398h"),
                       assembly |-> PyStr("SVTCA[0]")])
    /\ raised = "None"
    /\ Len(log) = 1
    /\ ~HasProgram(otf.glyf["a"])

\* C18: after _set_composite_flags with matching component counts, a component
\* whose identifier has a lib with the round key or the metrics key has
\* USE_MY_METRICS set if autoUseMyMetrics is off, its lib asks for the flag
\* and no earlier component asked for it, and cleared in every other case,
\* whatever the bit was before; a request dropped in favour of an earlier
\* one logs a warning.
C18_UseMyMetricsSetOrCleared ==
    (/\ call.op = "_set_composite_flags"
     /\ Len(ufo.glyphs[call.name].components) = Len(otf.glyf[call.name].components)) =>
        LET glyph == ufo.glyphs[call.name]
            new == otf.glyf[call.name].components
            libs == dict_get(glyph.lib, OBJECT_LIBS_KEY, PyDict(<<>>))
            meta(i) == dict_get(libs, glyph.components[i].identifier.val, PyDict(<<>>))
            resolved(i) ==
                /\ glyph.components[i].identifier.type = "str"
                /\ glyph.components[i].identifier.val \in DOMAIN libs.val
                /\ DOMAIN meta(i).val \cap {TRUETYPE_ROUND_KEY, TRUETYPE_METRICS_KEY} # {}
            requests(i) ==
                /\ resolved(i)
                /\ dict_get(meta(i), TRUETYPE_METRICS_KEY, PyBool(FALSE)) = PyBool(TRUE)
        IN  \A i \in 1..Len(new) :
                resolved(i) =>
                    LET earlier == \E j \in 1..(i - 1) : requests(j)
                    IN  /\ HasFlag(new[i].flags, USE_MY_METRICS)
                              = (~autoUseMyMetrics /\ requests(i) /\ ~earlier)
                        /\ (~autoUseMyMetrics /\ requests(i) /\ earlier) =>
                              \E k \in 1..Len(log) : log[k].level = "warning"

\* C19: when compiling a glyph program or a global program raises, the output
\* font is as it was before the call (no program was attached, no table was
\* installed), and after any call no glyph and no "fpgm" / "prep" table
\* holds a program that nothing was loaded into.
C19_NothingPartial ==
    call.op \in {"compileGlyphInstructions", "_compile_tt_glyph_program",
                 "setupTable_fpgm", "setupTable_prep"} =>
        /\ raised # "None" => otf = before
        /\ \A g \in DOMAIN otf.glyf : otf.glyf[g].program # EmptyProgram
        /\ \A t \in DOMAIN otf.tables \cap {"fpgm", "prep"} :
              otf.tables[t].program # EmptyProgram

\* C20: in a run over the output of an earlier run of the same source, no
\* call changes the output font: all glyph programs, component flags, tables
\* and maxp fields stay as the earlier run left them, so the later run ends
\* with the result of the earlier one.
C20_SecondRunChangesNothing ==
    (pass >= 2 /\ call.op # "run") => otf = before

\* C20 witness: a later run has made its last call, on a font the earlier
\* run gave glyph programs, resolved flags, the three tables and maxp values.
C20_Witness ==
    /\ pass = 2
    /\ call.op = "update_maxp"
    /\ getBytecode(otf.glyf["a"].program) = <<0>>
    /\ getBytecode(otf.glyf["h"].program) = <<0>>
    /\ otf.glyf["h"].components[1].flags = 1030
    /\ otf.glyf["h"].components[2].flags = 6
    /\ DOMAIN otf.tables = {"cvt ", "fpgm", "prep"}
    /\ otf.tables["cvt "].values = <<0, 500, 0, -250>>
    /\ otf.maxp["maxStorage"] = PyInt(2)
    /\ otf.maxp["maxSizeOfInstructions"] = PyInt(1)

\* C21: compileGlyphInstructions for a glyph changes nothing of the output
\* font but that glyph, and what it leaves (glyph, exception, log) is the
\* same whatever program and component flags any other glyph carries; so
\* after the call, in any order of calls, the glyph is what compiling it
\* first in the untouched font gives, every glyph is either untouched or
\* at that value, and update_maxp once every glyph is there sets
\* maxSizeOfInstructions to the longest of those programs.
C21_GlyphsIndependent ==
    LET Expected(g) ==
            compile_glyph_instructions(ufo, OutlineFont, autoUseMyMetrics,
                                       OutlineFont.glyf[g], g).ttglyph
        Altered(g, program, flags) ==
            [before EXCEPT
                !.glyf[g].program = program,
                !.glyf[g].components =
                    [i \in 1..Len(before.glyf[g].components) |-> [flags |-> flags]]]
    IN  /\ \A g \in DOMAIN otf.glyf : otf.glyf[g] \in {OutlineFont.glyf[g], Expected(g)}
        /\ call.op = "compileGlyphInstructions" =>
              /\ otf = [before EXCEPT !.glyf[call.name] = otf.glyf[call.name]]
              /\ otf.glyf[call.name] = Expected(call.name)
              /\ \A g \in DOMAIN before.glyf \ {call.name}, program \in Programs,
                    flags \in {2, 1542} :
                    compile_glyph_instructions(
                        ufo, Altered(g, program, flags), autoUseMyMetrics,
                        before.glyf[call.name], call.name)
                        = [ttglyph |-> otf.glyf[call.name], raised |-> raised,
                           log |-> log]
        /\ (/\ call.op = "update_maxp"
            /\ \A g \in DOMAIN otf.glyf : otf.glyf[g] = Expected(g)) =>
              otf.maxp["maxSizeOfInstructions"]
                  = PyInt(MaxOf({Len(getBytecode(Expected(g).program)) :
                                    g \in {n \in DOMAIN otf.glyf :
                                               HasProgram(Expected(n))}}))

\* C21 witness: "h" was compiled after "a" had received its program; "h" has
\* its own, longer program and resolved flags, "a" is as its call left it.
C21_Witness ==
    /\ call.op = "compileGlyphInstructions"
    /\ call.name = "h"
    /\ getBytecode(before.glyf["a"].program) = <<0>>
    /\ ~HasProgram(before.glyf["h"])
    /\ getBytecode(otf.glyf["a"].program) = <<0>>
    /\ Len(getBytecode(otf.glyf["h"].program)) = 3
    /\ otf.glyf["h"].components[1].flags # 2

\* C22: after _set_composite_flags with matching component counts, a component
\* that has an identifier and either no lib for it or a lib with neither the
\* round key nor the metrics key keeps its ROUND_XY_TO_GRID and USE_MY_METRICS
\* bits as they were, and it does not take the claim: a later component that
\* asks for USE_MY_METRICS, with automatic mode off and no request before it,
\* gets the flag.
C22_PlainComponentUntouched ==
    (/\ call.op = "_set_composite_flags"
     /\ Len(ufo.glyphs[call.name].components) = Len(otf.glyf[call.name].components)) =>
        LET glyph == ufo.glyphs[call.name]
            old == before.glyf[call.name].components
            new == otf.glyf[call.name].components
            libs == dict_get(glyph.lib, OBJECT_LIBS_KEY, PyDict(<<>>))
            identified(i) == glyph.components[i].identifier.type = "str"
            meta(i) == dict_get(libs, glyph.components[i].identifier.val, PyDict(<<>>))
            plain(i) ==
                /\ identified(i)
                /\ DOMAIN meta(i).val \cap {TRUETYPE_ROUND_KEY, TRUETYPE_METRICS_KEY} = {}
            requests(i) ==
                /\ identified(i)
                /\ Truthy(dict_get(meta(i), TRUETYPE_METRICS_KEY, PyBool(FALSE)))
        IN  \A i \in 1..Len(new) :
                plain(i) =>
                    /\ HasFlag(new[i].flags, ROUND_XY_TO_GRID)
                          = HasFlag(old[i].flags, ROUND_XY_TO_GRID)
                    /\ HasFlag(new[i].flags, USE_MY_METRICS)
                          = HasFlag(old[i].flags, USE_MY_METRICS)
                    /\ \A j \in (i + 1)..Len(new) :
                          (/\ ~autoUseMyMetrics
                           /\ requests(j)
                           /\ \A k \in 1..(j - 1) : ~requests(k)) =>
                              HasFlag(new[j].flags, USE_MY_METRICS)

\* C22 witness: the first component has an identifier and a lib without keys,
\* its ROUND_XY_TO_GRID and USE_MY_METRICS bits were clear and stay clear; the
\* second component asks for USE_MY_METRICS and gets it.
C22_Witness ==
    /\ call = [op |-> "_set_composite_flags", name |-> "h"]
    /\ ~autoUseMyMetrics
    /\ Len(ufo.glyphs["h"].components) = NumComponents
    /\ ufo.glyphs["h"].components[1].identifier = PyStr(ComponentIds[1])
    /\ ufo.glyphs["h"].components[2].identifier = PyStr(ComponentIds[2])
    /\ dict_in(ufo.glyphs["h"].lib, OBJECT_LIBS_KEY)
    /\ dict_get(ufo.glyphs["h"].lib.val[OBJECT_LIBS_KEY], ComponentIds[1], PyNone)
           = PyDict(<<>>)
    /\ dict_get(ufo.glyphs["h"].lib.val[OBJECT_LIBS_KEY], ComponentIds[2], PyNone)
           = PyDict((TRUETYPE_METRICS_KEY :> PyBool(TRUE)))
    /\ ~dict_in(ufo.glyphs["h"].lib, TRUETYPE_OVERLAP_KEY)
    /\ before.glyf["h"].components[1].flags = 2
    /\ before.glyf["h"].components[2].flags = 2
    /\ otf.glyf["h"].components[1].flags = 2
    /\ otf.glyf["h"].components[2].flags = 518

\* C23: when compileGlyphInstructions is called for a glyph whose hint record
\* fails the format guard, TypeError or NotImplementedError reaches the
\* caller and the output font is as before the call: no program attached or
\* stripped, no component flag changed, nothing logged.  When a composite
\* glyph has no record, or its record passes the guard and fails the hash
\* check or has no assembly, nothing is raised and the components are as
\* _set_composite_flags leaves them.
C23_GuardFailureSkipsFlags ==
    (/\ call.op = "compileGlyphInstructions"
     /\ call.name \in DOMAIN ufo.glyphs) =>
        LET glyph == ufo.glyphs[call.name]
            old == before.glyf[call.name]
            present == dict_in(glyph.lib, TRUETYPE_INSTRUCTIONS_KEY)
            R == dict_get(glyph.lib, TRUETYPE_INSTRUCTIONS_KEY, PyDict(<<>>))
            formatVersion == dict_get(R, "formatVersion", PyNone)
            guardFails == present /\ formatVersion # PyStr("1")
            hashFails == dict_get(R, "id", PyNone)
                            # PyStr(HashPointPen(before.hmtx[call.name], old.outline))
            noAssembly == ~dict_in(R, "assembly")
        IN  /\ guardFails =>
                  /\ raised = IF formatVersion.type = "str"
                              THEN "NotImplementedError" ELSE "TypeError"
                  /\ otf = before
                  /\ log = <<>>
            /\ (/\ old.numberOfContours = -1
                /\ \/ ~present
                   \/ ~guardFails /\ (hashFails \/ noAssembly)) =>
                  /\ raised = "None"
                  /\ otf.glyf[call.name].components
                        = set_composite_flags(glyph, old, autoUseMyMetrics)
                              .ttglyph.components

\* C23 witness: the composite "h" carries an empty program and unresolved
\* flags, its record has formatVersion "2" with the right hash and an
\* assembly; the call raises NotImplementedError and the glyph is as before.
C23_Witness ==
    /\ call = [op |-> "compileGlyphInstructions", name |-> "h"]
    /\ "h" \in DOMAIN ufo.glyphs
    /\ dict_get(ufo.glyphs["h"].lib, TRUETYPE_INSTRUCTIONS_KEY, PyNone)
           = MakeDict([formatVersion |-> PyStr("2"), id |-> PyStr("w398h"),
                       assembly |-> PyStr("SVTCA[0]")])
    /\ raised = "NotImplementedError"
    /\ otf.glyf["h"].program = ProgramFromBytecode(<<>>)
    /\ \A i \in 1..NumComponents : otf.glyf["h"].components[i].flags = 2
    /\ otf = before

====
